---- MODULE Spec2Model ----
(***************************************************************************)
(* Model of the per-frame render pipeline of src/engine/engine.rs:        *)
(* Engine::render_pass_with_material with the gather, sort and submit     *)
(* steps it runs, the binding cache it drives (EngineContext), and the    *)
(* frame operations around it (begin, new_game_object, end).              *)
(*                                                                         *)
(* Positions are integers on the camera axis; a frustum is the interval   *)
(* of that axis the camera sees.  Reference identity (Rc::ptr_eq) is      *)
(* identity of the resource name.                                         *)
(***************************************************************************)
EXTENDS Integers, Sequences, FiniteSets, TLC

VARIABLES
    universe,   \* the prototypes, cameras and override materials in use
    objects,    \* Engine.objects: the Vec of weak scene-object references
    heap,       \* the scene graph's objects: id -> prototype name, or Gone
    status,     \* asset system: load state of the resources still streaming
    stats,      \* Engine.stats
    crashed,    \* TRUE once a panic! has aborted the process
    pass,       \* trace of the operation that has just run, or NoPass
    current_camera, \* Engine.current_camera: the cached main camera component
    holders     \* the camera components the caller keeps a strong reference to

vars == <<universe, objects, heap, status, stats, crashed, pass,
          current_camera, holders>>

(***************************************************************************)
(* Bounds                                                                  *)
(***************************************************************************)
MaxObjects == 3

\* objects of a scene of lights
MaxLights == 6

(***************************************************************************)
(* The resources the scenes are built from.                                *)
(***************************************************************************)
None == "none"
Gone == "gone"
NoPass == [ran |-> FALSE]

\* the trace right after end() has returned
EndPass == [ran |-> FALSE, ended |-> TRUE]

\* RenderQueue and its derived Ord: Opaque < Skybox < Transparent < UI
RenderQueueOrd ==
    [Opaque |-> 1, Skybox |-> 2, Transparent |-> 3, UI |-> 4]

RenderQueueKinds == DOMAIN RenderQueueOrd

\* MaterialState: the partial GPU state block (None = field not set)
MaterialStateDefault == [depth_write |-> None, depth_test |-> None]

\* the state every field of the StateCache has after apply_defaults
StateDefaults == [depth_write |-> "true", depth_test |-> "Less"]

\* RenderQueueList::new (lines 99-116): the default state block of each bucket
RenderQueueStates ==
    [Opaque |-> MaterialStateDefault,
     Skybox |-> [depth_write |-> "false", depth_test |-> "LessEqual"],
     Transparent |-> [depth_write |-> "false", depth_test |-> None],
     UI |-> MaterialStateDefault]

\* Material: render_queue tag, program, texture parameters in bind order, states
Materials ==
    [m_op1 |-> [render_queue |-> "Opaque", program |-> "p1",
                textures |-> <<"t1">>, states |-> MaterialStateDefault],
     m_op2 |-> [render_queue |-> "Opaque", program |-> "p2",
                textures |-> <<"t2">>, states |-> MaterialStateDefault],
     m_tr  |-> [render_queue |-> "Transparent", program |-> "p1",
                textures |-> <<"t1", "t3">>,
                states |-> [depth_write |-> "true", depth_test |-> None]],
     m_sky |-> [render_queue |-> "Skybox", program |-> "p2",
                textures |-> <<"t3">>, states |-> MaterialStateDefault],
     m_ui  |-> [render_queue |-> "UI", program |-> "p1",
                textures |-> <<>>,
                states |-> [depth_write |-> None, depth_test |-> "Always"]],
     m_big |-> [render_queue |-> "UI", program |-> "p1",
                textures |-> <<"t1", "t3", "t4", "t5", "t6", "t7", "t8", "t9",
                               "t10", "t1", "t10">>,
                states |-> MaterialStateDefault],
     m_ov  |-> [render_queue |-> "UI", program |-> "p2",
                textures |-> <<>>, states |-> MaterialStateDefault]]

\* MeshSurface: buffer + material; buffer.bounds() is Some(sphere of radius r) or None
Surfaces ==
    [s_op1  |-> [material |-> "m_op1", buffer |-> "b1", has_bounds |-> TRUE, r |-> 1],
     s_op2  |-> [material |-> "m_op2", buffer |-> "b2", has_bounds |-> TRUE, r |-> 1],
     s_opw  |-> [material |-> "m_op2", buffer |-> "b2", has_bounds |-> TRUE, r |-> 2],
     s_opnb |-> [material |-> "m_op1", buffer |-> "b3", has_bounds |-> FALSE, r |-> 0],
     s_trw  |-> [material |-> "m_tr", buffer |-> "b2", has_bounds |-> TRUE, r |-> 2],
     s_tr   |-> [material |-> "m_tr", buffer |-> "b1", has_bounds |-> TRUE, r |-> 1],
     s_trnb |-> [material |-> "m_tr", buffer |-> "b3", has_bounds |-> FALSE, r |-> 0],
     s_sky  |-> [material |-> "m_sky", buffer |-> "b3", has_bounds |-> TRUE, r |-> 1],
     s_ui   |-> [material |-> "m_ui", buffer |-> "b1", has_bounds |-> TRUE, r |-> 1],
     s_uinb |-> [material |-> "m_ui", buffer |-> "b3", has_bounds |-> FALSE, r |-> 0],
     s_big  |-> [material |-> "m_big", buffer |-> "b1", has_bounds |-> FALSE, r |-> 0]]

\* GameObject: active flag, global translation, max local scale, components
Protos ==
    [near     |-> [active |-> TRUE, pos |-> 1, scale |-> 1, has_mesh |-> TRUE,
                   mesh |-> <<"s_op1", "s_tr">>, light |-> None],
     mid      |-> [active |-> TRUE, pos |-> 2, scale |-> 1, has_mesh |-> TRUE,
                   mesh |-> <<"s_op2", "s_tr">>, light |-> None],
     far      |-> [active |-> TRUE, pos |-> 3, scale |-> 1, has_mesh |-> TRUE,
                   mesh |-> <<"s_op1", "s_tr">>, light |-> None],
     twin     |-> [active |-> TRUE, pos |-> 1, scale |-> 1, has_mesh |-> TRUE,
                   mesh |-> <<"s_op2", "s_trnb", "s_trw">>, light |-> None],
     out      |-> [active |-> TRUE, pos |-> 8, scale |-> 2, has_mesh |-> TRUE,
                   mesh |-> <<"s_op1", "s_opw", "s_opnb", "s_sky", "s_trnb",
                              "s_trw", "s_tr", "s_uinb", "s_ui">>,
                   light |-> None],
     inactive |-> [active |-> FALSE, pos |-> 1, scale |-> 1, has_mesh |-> TRUE,
                   mesh |-> <<"s_op1", "s_sky", "s_uinb">>, light |-> None],
     lamp     |-> [active |-> TRUE, pos |-> 2, scale |-> 1, has_mesh |-> FALSE,
                   mesh |-> <<>>, light |-> "Directional"],
     bulb     |-> [active |-> TRUE, pos |-> 2, scale |-> 1, has_mesh |-> FALSE,
                   mesh |-> <<>>, light |-> "Point"],
     eye1     |-> [active |-> TRUE, pos |-> 0, scale |-> 1, has_mesh |-> FALSE,
                   mesh |-> <<>>, light |-> None],
     eye2     |-> [active |-> TRUE, pos |-> 4, scale |-> 1, has_mesh |-> FALSE,
                   mesh |-> <<>>, light |-> None],
     panel    |-> [active |-> TRUE, pos |-> 4, scale |-> 1, has_mesh |-> TRUE,
                   mesh |-> <<"s_op1", "s_sky", "s_big">>, light |-> None]]

\* Camera: eye, the interval its frustum covers, optional render target
Cameras ==
    [cam1 |-> [eye |-> 0, lo |-> 0, hi |-> 5, render_texture |-> None],
     cam2 |-> [eye |-> 4, lo |-> 0, hi |-> 3, render_texture |-> "rt1"]]

\* the Camera component of the prototypes that carry one
ProtoCameras == [eye1 |-> "cam1", eye2 |-> "cam2"]

\* Option<Arc<Component>>: None, or the Camera component of object id
NoCamera == [id |-> 0, camera |-> None]

\* resources whose load state the asset system still changes
Streaming == {"p2", "t2", "b2"}

\* the load states the asset system reports for the streaming resources
AssetStates == [Streaming -> {"Ready", "NotReady", "Failed"}]

StatusOf(st, r) == IF r \in DOMAIN st THEN st[r] ELSE "Ready"

(***************************************************************************)
(* Asset and device collaborators                                          *)
(***************************************************************************)
\* AssetResult of binding a program, texture or buffer: Ok, Err(NotReady),
\* or another Err
AssetBind(r) ==
    CASE StatusOf(status, r) = "Ready" -> "Ok"
      [] StatusOf(status, r) = "NotReady" -> "NotReady"
      [] OTHER -> "Failed"

\* Frustum::collide_sphere: FALSE iff the sphere is entirely outside
collide_sphere(camera, p, r) ==
    /\ p + r >= camera.lo
    /\ p - r <= camera.hi

(***************************************************************************)
(* EngineContext: the binding cache of one pass                            *)
(***************************************************************************)
TexUnitCapacity == 8

\* ctx.main_light: None before prepare_ctx, then an object's Light component
\* (the object's id) or the synthesized Directional::default()
NoLight == 0
DefaultLight == -1

EngineContext_new(st) ==
    [prog |-> None, mesh_buffer |-> None,
     last_material_bound |-> None, last_light_bound |-> None,
     tex_caches |-> <<>>,
     switch_prog |-> 0, switch_tex |-> 0, switch_mesh |-> 0,
     main_light |-> NoLight, point_lights |-> <<>>,
     states |-> StateDefaults,
     stats |-> st]

\* prepare_cache: no-op when new_p is the cached resource; otherwise run the
\* bind closure (bound = what the closure returns on c) and, if it
\* succeeded, cache new_p
prepare_cache(c, field, new_p, bound) ==
    IF c[field] = new_p
    THEN [ctx |-> c, res |-> "Ok", bind |-> FALSE]
    ELSE IF bound.res = "Ok"
         THEN [ctx |-> [bound.ctx EXCEPT ![field] = new_p],
               res |-> "Ok", bind |-> TRUE]
         ELSE [ctx |-> bound.ctx, res |-> bound.res, bind |-> FALSE]

\* index of the slot of tex_caches holding tex, or 0
TexSlot(caches, tex) ==
    IF \E i \in 1..Len(caches) : caches[i][2] = tex
    THEN CHOOSE i \in 1..Len(caches) : caches[i][2] = tex
    ELSE 0

RemoveAt(s, i) == SubSeq(s, 1, i - 1) \o SubSeq(s, i + 1, Len(s))

\* textures whose Rc is still held by a material (all of them, within a pass)
LiveTextures == UNION {{Materials[m].textures[i] : i \in 1..Len(Materials[m].textures)} : m \in DOMAIN Materials}

\* prepare_cache_tex: a texture holding a unit keeps it, with no bind;
\* otherwise take a free unit, else the first dead slot, else the oldest
\* slot, run the bind closure with it and record the slot at the back
prepare_cache_tex(c, tex, bound) ==
    LET caches == c.tex_caches
        hit == TexSlot(caches, tex)
        full == Len(caches) >= TexUnitCapacity
        dead == {i \in 1..Len(caches) : caches[i][2] \notin LiveTextures}
        old == IF dead # {} THEN CHOOSE i \in dead : \A j \in dead : i <= j
               ELSE 1
        unit == IF full THEN caches[old][1] ELSE Len(caches)
        kept == IF full THEN RemoveAt(caches, old) ELSE caches
    IN IF hit # 0
       THEN [ctx |-> c, res |-> "Ok", unit |-> caches[hit][1], bind |-> FALSE]
       ELSE IF bound.res = "Ok"
            THEN [ctx |-> [bound.ctx EXCEPT
                              !.tex_caches = Append(kept, <<unit, tex>>)],
                  res |-> "Ok", unit |-> unit, bind |-> TRUE]
            ELSE [ctx |-> [bound.ctx EXCEPT !.tex_caches = kept],
                  res |-> bound.res, unit |-> unit, bind |-> FALSE]

\* StateCache::apply_defaults: every field back to the engine default
apply_defaults(states) == StateDefaults

\* StateCache::apply: the fields the block sets replace the cached ones
apply(states, block) ==
    [f \in DOMAIN states |->
        IF block[f] # None THEN block[f] ELSE states[f]]

(***************************************************************************)
(* Submission.  st is the running state of a pass: the context, the       *)
(* buffer bound at the device, and the trace kept for the properties:     *)
(* cmds (one entry per command processed), texreq (one entry per texture  *)
(* unit request) and calls (the device calls issued).                     *)
(***************************************************************************)
Call(op, res, unit) == [op |-> op, res |-> res, unit |-> unit]

\* the closure of lines 211-215: bind the program, count the switch
program_bind(c, p) ==
    IF AssetBind(p) = "Ok"
    THEN [ctx |-> [c EXCEPT !.switch_prog = @ + 1], res |-> "Ok"]
    ELSE [ctx |-> c, res |-> AssetBind(p)]

\* the closure of lines 218-224: bind the texture, count the switch
texture_bind(c, tex) ==
    IF AssetBind(tex) = "Ok"
    THEN [ctx |-> [c EXCEPT !.switch_tex = @ + 1], res |-> "Ok"]
    ELSE [ctx |-> c, res |-> AssetBind(tex)]

\* the closure of lines 318-322: bind the buffer, count the switch
buffer_bind(c, b) ==
    IF AssetBind(b) = "Ok"
    THEN [ctx |-> [c EXCEPT !.switch_mesh = @ + 1], res |-> "Ok"]
    ELSE [ctx |-> c, res |-> AssetBind(b)]

\* lines 218-225, after prepare_cache_tex returned r for tex: the trace of
\* the request; held is the unit tex held before the request, or -1
bind_tex_done(st, tex, r) ==
    LET slot == TexSlot(st.ctx.tex_caches, tex)
    IN [st |-> [st EXCEPT
                  !.ctx = r.ctx,
                  !.texreq = Append(@,
                      [tex |-> tex, unit |-> r.unit, bind |-> r.bind,
                       res |-> r.res,
                       held |-> IF slot = 0 THEN -1
                                ELSE st.ctx.tex_caches[slot][1]]),
                  !.calls = IF r.bind
                            THEN Append(@, Call("bind_texture", tex, r.unit))
                            ELSE @],
        res |-> r.res]

\* mutant of bind_tex: every request binds anew, as if no unit were held
bind_tex_uncached(st, tex) ==
    bind_tex_done(st, tex,
                  prepare_cache_tex([st.ctx EXCEPT !.tex_caches = <<>>], tex,
                                    texture_bind(st.ctx, tex)))

\* one texture parameter of material.bind: lines 217-225
bind_tex(st, tex) ==
    bind_tex_done(st, tex,
                  prepare_cache_tex(st.ctx, tex, texture_bind(st.ctx, tex)))

\* Material::bind: the texture parameters in order, stopping at the first Err
RECURSIVE material_bind(_, _, _)
material_bind_next(r, texs, i) ==
    IF r.res # "Ok" THEN r ELSE material_bind(r.st, texs, i + 1)

material_bind(st, texs, i) ==
    IF i > Len(texs)
    THEN [st |-> st, res |-> "Ok"]
    ELSE material_bind_next(bind_tex(st, texs[i]), texs, i)

setup_light(st) ==
    IF st.ctx.last_light_bound = st.ctx.prog
    THEN st
    ELSE [st EXCEPT !.ctx.last_light_bound = st.ctx.prog,
                    !.calls = Append(@, Call("bind_lights", st.ctx.prog, 0))]

\* lines 211-215, after prepare_cache returned r for program p
setup_program_done(st, p, r) ==
    [st |-> [st EXCEPT !.ctx = r.ctx,
                       !.calls = IF r.bind
                                 THEN Append(@, Call("use_program", p, 0))
                                 ELSE @],
     res |-> r.res, prog_bind |-> r.bind]

\* mutant of setup_program: the program is bound and counted even when it
\* is the cached program
setup_program_uncached(st, p) ==
    setup_program_done(st, p,
        prepare_cache([st.ctx EXCEPT !.prog = None], "prog", p,
                      program_bind(st.ctx, p)))

\* lines 211-215: the program through the cache
setup_program(st, p) ==
    setup_program_done(st, p,
        prepare_cache(st.ctx, "prog", p, program_bind(st.ctx, p)))

\* lines 227-231, after material.bind returned t
setup_material_done(t, material, prog_bind) ==
    IF t.res # "Ok"
    THEN [st |-> t.st, res |-> t.res, prog_bind |-> prog_bind]
    ELSE [st |-> [setup_light(t.st) EXCEPT
                    !.ctx.last_material_bound = material],
          res |-> "Ok", prog_bind |-> prog_bind]

\* lines 215-231, after the program went through the cache with result b
setup_material_bound(b, material) ==
    IF b.res # "Ok"
    THEN b
    ELSE setup_material_done(
             material_bind(b.st, Materials[material].textures, 1),
             material, b.prog_bind)

setup_material(st, material) ==
    IF st.ctx.last_material_bound = material
    THEN [st |-> st, res |-> "Ok", prog_bind |-> FALSE]
    ELSE setup_material_bound(
             setup_program(st, Materials[material].program), material)

\* the entry of the trace for one command: what was set up and bound, and
\* after the material setup: the program, the last material and the switch
\* count the context holds, and the buffer bound at the device
CmdEntry(st, q, i, cmd, mat, outcome, prog_bind, buf_bind, gl_buffer) ==
    [q |-> q, i |-> i, cmd |-> cmd, mat |-> mat, outcome |-> outcome,
     prog_bind |-> prog_bind, buf_bind |-> buf_bind,
     prog |-> st.ctx.prog, gl_buffer |-> gl_buffer,
     last_material |-> st.ctx.last_material_bound,
     switch_prog |-> st.ctx.switch_prog,
     state |-> st.ctx.states]

\* mutant of render_command_buffer: every Err of the buffer bind is taken
\* as not ready
render_command_buffer_lenient(m, q, i, cmd, mat, buffer, r) ==
    IF r.res = "Ok"
    THEN [m.st EXCEPT
            !.ctx = r.ctx,
            !.gl_buffer = None,
            !.cmds = Append(@, CmdEntry(m.st, q, i, cmd, mat, "Drawn",
                              m.prog_bind, r.bind,
                              IF r.bind THEN buffer ELSE m.st.gl_buffer)),
            !.calls = @ \o
                (IF r.bind THEN <<Call("bind_buffer", buffer, 0)>>
                 ELSE <<>>) \o
                <<Call("draw", buffer, 0), Call("unbind_buffer", buffer, 0)>>]
    ELSE [m.st EXCEPT
            !.ctx = r.ctx,
            !.cmds = Append(@, CmdEntry(m.st, q, i, cmd, mat, "SkipBuffer",
                              m.prog_bind, FALSE, m.st.gl_buffer))]

\* lines 324-335: r is the result of the buffer's prepare_cache
render_command_buffer(m, q, i, cmd, mat, buffer, r) ==
    IF r.res = "Ok"
    THEN [m.st EXCEPT
            !.ctx = r.ctx,
            !.gl_buffer = None,
            !.cmds = Append(@, CmdEntry(m.st, q, i, cmd, mat, "Drawn",
                              m.prog_bind, r.bind,
                              IF r.bind THEN buffer ELSE m.st.gl_buffer)),
            !.calls = @ \o
                (IF r.bind THEN <<Call("bind_buffer", buffer, 0)>>
                 ELSE <<>>) \o
                <<Call("draw", buffer, 0), Call("unbind_buffer", buffer, 0)>>]
    ELSE [m.st EXCEPT
            !.ctx = r.ctx,
            !.panicked = (r.res # "NotReady"),
            !.cmds = Append(@, CmdEntry(m.st, q, i, cmd, mat,
                              IF r.res = "NotReady" THEN "SkipBuffer"
                              ELSE "Panic",
                              m.prog_bind, FALSE, m.st.gl_buffer))]

\* mutant of render_command_material: a material that is not ready does not
\* end the iteration, the buffer is bound and drawn all the same
render_command_material_noskip(m, q, i, cmd, mat, buffer) ==
    IF m.res \notin {"Ok", "NotReady"}
    THEN [m.st EXCEPT
            !.panicked = TRUE,
            !.cmds = Append(@, CmdEntry(m.st, q, i, cmd, mat, "Panic",
                              m.prog_bind, FALSE, m.st.gl_buffer))]
    ELSE render_command_buffer(m, q, i, cmd, mat, buffer,
             prepare_cache(m.st.ctx, "mesh_buffer", buffer,
                           buffer_bind(m.st.ctx, buffer)))

\* lines 308-335: m is the result of setup_material
render_command_material(m, q, i, cmd, mat, buffer) ==
    IF m.res # "Ok"
    THEN [m.st EXCEPT
            !.panicked = (m.res # "NotReady"),
            !.cmds = Append(@, CmdEntry(m.st, q, i, cmd, mat,
                              IF m.res = "NotReady" THEN "SkipMaterial"
                              ELSE "Panic",
                              m.prog_bind, FALSE, m.st.gl_buffer))]
    ELSE render_command_buffer(m, q, i, cmd, mat, buffer,
             prepare_cache(m.st.ctx, "mesh_buffer", buffer,
                           buffer_bind(m.st.ctx, buffer)))

\* lines 298-301: the override material, or the surface's own
resolve_material(cmd, material) ==
    IF material # None THEN material ELSE Surfaces[cmd.surface].material

\* mutant of commit_states: the state of the command before is not reset
commit_states_kept(st, q, mat) ==
    [st EXCEPT
       !.ctx.states = apply(apply(@, RenderQueueStates[q]),
                            Materials[mat].states),
       !.calls = Append(@, Call("commit_states", None, 0))]

\* lines 303-306: defaults, then the bucket's block, then the material's,
\* committed to the device
commit_states(st, q, mat) ==
    [st EXCEPT
       !.ctx.states = apply(apply(apply_defaults(@), RenderQueueStates[q]),
                            Materials[mat].states),
       !.calls = Append(@, Call("commit_states", None, 0))]

\* the body of the loop of render_commands (lines 297-336) for the command
\* at index i of bucket q
render_command(st, q, i, cmd, material) ==
    render_command_material(
        setup_material(commit_states(st, q, resolve_material(cmd, material)),
                       resolve_material(cmd, material)),
        q, i, cmd, resolve_material(cmd, material),
        Surfaces[cmd.surface].buffer)

\* render_commands: every command of one bucket, in the bucket's order
RECURSIVE render_commands(_, _, _, _, _)
render_commands(st, q, commands, i, material) ==
    IF st.panicked \/ i > Len(commands)
    THEN st
    ELSE render_commands(render_command(st, q, i, commands[i], material),
                         q, commands, i + 1, material)

(***************************************************************************)
(* Render queues                                                           *)
(***************************************************************************)
\* RenderQueueList::new: the four buckets, empty
RenderQueueList_new == [k \in RenderQueueKinds |-> <<>>]

\* mutant of RenderQueueIter: the keys in descending Ord
RenderQueueIter_reversed ==
    LET n == Cardinality(RenderQueueKinds)
    IN [i \in 1..n |->
          CHOOSE k \in RenderQueueKinds : RenderQueueOrd[k] = n + 1 - i]

\* BTreeMap iteration (line 532): the keys in ascending Ord
RenderQueueIter ==
    LET n == Cardinality(RenderQueueKinds)
    IN [i \in 1..n |-> CHOOSE k \in RenderQueueKinds : RenderQueueOrd[k] = i]

\* mutant of surface_count: only the sorted buckets are counted
surface_count_sorted(render_q) ==
    Len(render_q["Opaque"]) + Len(render_q["Transparent"])

surface_count(render_q) ==
    LET RECURSIVE sum(_)
        sum(i) == IF i = 0 THEN 0
                  ELSE Len(render_q[RenderQueueIter[i]]) + sum(i - 1)
    IN sum(Len(RenderQueueIter))

\* f32::partial_cmp on finite values
partial_cmp(a, b) ==
    IF a < b THEN "Less" ELSE IF a = b THEN "Equal" ELSE "Greater"

\* the comparator of sort_by_cam_distance (lines 74-79)
cmp_cam_distance(a, b) == partial_cmp(b.cam_distance, a.cam_distance)

\* mutant of cmp_cam_distance_reverse: a and b swapped
cmp_cam_distance_swapped(a, b) == partial_cmp(b.cam_distance, a.cam_distance)

\* the comparator of sort_by_cam_distance_reverse (lines 83-88)
cmp_cam_distance_reverse(a, b) == partial_cmp(a.cam_distance, b.cam_distance)

\* sort_unstable_by: every arrangement of the commands that the comparator
\* orders; which one among equal elements is not specified.  reverse selects
\* the comparator.
sort_unstable_by(commands, reverse) ==
    LET n == Len(commands)
        cmp(a, b) == IF reverse THEN cmp_cam_distance_reverse(a, b)
                     ELSE cmp_cam_distance(a, b)
        RECURSIVE arrange(_)
        arrange(left) ==
            IF left = {} THEN {<<>>}
            ELSE UNION {
                  {<<commands[i]>> \o rest : rest \in arrange(left \ {i})} :
                  i \in {k \in left : \A j \in left :
                            cmp(commands[k], commands[j]) # "Greater"}}
    IN arrange(1..n)

sort_by_cam_distance(commands) == sort_unstable_by(commands, FALSE)

sort_by_cam_distance_reverse(commands) == sort_unstable_by(commands, TRUE)

(***************************************************************************)
(* Gather                                                                  *)
(***************************************************************************)
\* mutant of gather_surface: no frustum test
gather_surface_uncull(render_q, id, s, camera) ==
    LET object == Protos[heap[id]]
        tag == Materials[Surfaces[s].material].render_queue
        culled == /\ tag \notin {"Skybox", "UI"}
                  /\ ~Surfaces[s].has_bounds
        cam_dist == (camera.eye - object.pos) * (camera.eye - object.pos)
    IN IF culled THEN render_q
       ELSE [render_q EXCEPT ![tag] = Append(@,
               [surface |-> s, object |-> id, cam_distance |-> cam_dist])]

\* mutant of gather_surface: every command pushed to the Opaque bucket
gather_surface_opaque(render_q, id, s, camera) ==
    LET object == Protos[heap[id]]
        tag == Materials[Surfaces[s].material].render_queue
        scaled_r == Surfaces[s].r * object.scale
        culled == /\ tag \notin {"Skybox", "UI"}
                  /\ \/ ~Surfaces[s].has_bounds
                     \/ ~collide_sphere(camera, object.pos, scaled_r)
        cam_dist == (camera.eye - object.pos) * (camera.eye - object.pos)
    IN IF culled THEN render_q
       ELSE [render_q EXCEPT !["Opaque"] = Append(@,
               [surface |-> s, object |-> id, cam_distance |-> cam_dist])]

\* the body of the surface loop of gather_render_commands (lines 435-466)
gather_surface(render_q, id, s, camera) ==
    LET object == Protos[heap[id]]
        tag == Materials[Surfaces[s].material].render_queue
        scaled_r == Surfaces[s].r * object.scale
        culled == /\ tag \notin {"Skybox", "UI"}
                  /\ \/ ~Surfaces[s].has_bounds
                     \/ ~collide_sphere(camera, object.pos, scaled_r)
        cam_dist == (camera.eye - object.pos) * (camera.eye - object.pos)
    IN IF culled THEN render_q
       ELSE [render_q EXCEPT ![tag] = Append(@,
               [surface |-> s, object |-> id, cam_distance |-> cam_dist])]

RECURSIVE gather_surfaces(_, _, _, _, _)
gather_surfaces(render_q, id, mesh, i, camera) ==
    IF i > Len(mesh) THEN render_q
    ELSE gather_surfaces(gather_surface(render_q, id, mesh[i], camera),
                         id, mesh, i + 1, camera)

\* mutant of gather_render_commands: the active flag is not looked at
gather_render_commands_any(render_q, id, camera) ==
    LET object == Protos[heap[id]]
    IN IF ~object.has_mesh THEN render_q
       ELSE gather_surfaces(render_q, id, object.mesh, 1, camera)

gather_render_commands(render_q, id, camera) ==
    LET object == Protos[heap[id]]
    IN IF ~object.active THEN render_q
       ELSE IF ~object.has_mesh THEN render_q
       ELSE gather_surfaces(render_q, id, object.mesh, 1, camera)

\* the gather loop of lines 504-510: every reference that still upgrades
RECURSIVE gather_objects(_, _, _)
gather_objects(render_q, i, camera) ==
    IF i > Len(objects) THEN render_q
    ELSE gather_objects(
           IF heap[objects[i]] = Gone THEN render_q
           ELSE gather_render_commands(render_q, objects[i], camera),
           i + 1, camera)

(***************************************************************************)
(* Lights                                                                  *)
(***************************************************************************)
MaxPointLights == 4

\* find_all_components::<Light>: the Light component of every live object
\* that has one, in the order of Engine.objects
find_all_lights ==
    SelectSeq(objects, LAMBDA id : /\ heap[id] # Gone
                                   /\ Protos[heap[id]].light # None)

find_main_light ==
    LET ds == SelectSeq(find_all_lights,
                        LAMBDA id : Protos[heap[id]].light = "Directional")
    IN IF ds = <<>> THEN NoLight ELSE ds[1]

\* mutant of prepare_ctx: every Point light is taken
prepare_ctx_all(c) ==
    LET ps == SelectSeq(find_all_lights,
                        LAMBDA id : Protos[heap[id]].light = "Point")
    IN [c EXCEPT
          !.main_light = IF find_main_light = NoLight THEN DefaultLight
                         ELSE find_main_light,
          !.point_lights = ps]

prepare_ctx(c) ==
    LET ps == SelectSeq(find_all_lights,
                        LAMBDA id : Protos[heap[id]].light = "Point")
    IN [c EXCEPT
          !.main_light = IF find_main_light = NoLight THEN DefaultLight
                         ELSE find_main_light,
          !.point_lights = SubSeq(ps, 1, IF Len(ps) < MaxPointLights
                                         THEN Len(ps) ELSE MaxPointLights)]

(***************************************************************************)
(* The render pass                                                         *)
(***************************************************************************)
\* mutant of new_pass_ctx: the context of the pass before is kept
new_pass_ctx_kept ==
    IF pass.ran THEN [pass.ctx EXCEPT !.stats = stats]
    ELSE EngineContext_new(stats)

\* line 479: a fresh EngineContext for every pass
new_pass_ctx == EngineContext_new(stats)

\* lines 524-530
snapshot_stats(c, render_q) ==
    [c EXCEPT !.stats = [surfaces_count |-> surface_count(render_q),
                         opaque_count |-> Len(render_q["Opaque"]),
                         transparent_count |-> Len(render_q["Transparent"])]]

\* lines 532-534: the buckets in the map's iteration order
RECURSIVE submit_queues(_, _, _, _)
submit_queues(st, render_q, k, material) ==
    IF st.panicked \/ k > Len(RenderQueueIter)
    THEN st
    ELSE submit_queues(
           render_commands(st, RenderQueueIter[k],
                           render_q[RenderQueueIter[k]], 1, material),
           render_q, k + 1, material)

\* lines 481-495: target setup and clear
pass_begin_calls(rt) ==
    (IF rt # None THEN <<Call("bind_frame_buffer", rt, 0)>> ELSE <<>>) \o
    <<Call("viewport", None, 0), Call("clear", None, 0)>>

\* mutant of pass_end_calls: the target is left bound
pass_end_calls_leak(st, rt) == st.calls

\* lines 536-538: target teardown
pass_end_calls(st, rt) ==
    IF st.panicked \/ rt = None THEN st.calls
    ELSE Append(st.calls, Call("unbind_frame_buffer", rt, 0))

\* what the trace keeps of the pass before this one
PassBefore ==
    IF pass.ran
    THEN [ran |-> TRUE, prog |-> pass.ctx.prog,
          mesh_buffer |-> pass.ctx.mesh_buffer]
    ELSE [ran |-> FALSE, prog |-> None, mesh_buffer |-> None]

\* the trace of a pass whose submission ended in st
PassTrace(camera, material, gathered, render_q, st) ==
    [ran |-> TRUE, camera |-> camera, material |-> material,
     gathered |-> gathered, render_q |-> render_q,
     ctx |-> st.ctx, gl_buffer |-> st.gl_buffer,
     panicked |-> st.panicked, cmds |-> st.cmds,
     texreq |-> st.texreq,
     calls |-> pass_end_calls(st, camera.render_texture),
     before |-> PassBefore]

\* lines 479-534 once the buckets are gathered and sorted
render_pass_submit(camera, material, gathered, render_q) ==
    PassTrace(camera, material, gathered, render_q,
        submit_queues(
            [ctx |-> snapshot_stats(prepare_ctx(new_pass_ctx), render_q),
             gl_buffer |-> None, panicked |-> FALSE,
             cmds |-> <<>>, texreq |-> <<>>,
             calls |-> pass_begin_calls(camera.render_texture)],
            render_q, 1, material))

\* render_pass_with_material, given the buckets as gathered and the orders
\* the two sorts produced
render_pass_with_material(camera, material, gathered, opaque, transparent) ==
    render_pass_submit(camera, material, gathered,
        [gathered EXCEPT !["Opaque"] = opaque,
                         !["Transparent"] = transparent])

(***************************************************************************)
(* Actions                                                                 *)
(***************************************************************************)
Created == Len(heap)

\* IEngine::new_game_object (lines 629-634), with the components the caller
\* then attaches; each prototype is one object of the scene, added once
NewGameObject(proto) ==
    /\ ~crashed
    /\ Created < MaxObjects
    /\ \A i \in 1..Created : heap[i] # proto
    /\ heap' = Append(heap, proto)
    /\ objects' = Append(objects, Created + 1)
    /\ pass' = NoPass
    /\ UNCHANGED <<universe, status, stats, crashed, current_camera, holders>>

\* new_game_object for a scene of lights: a light prototype may be added
\* any number of times, a prototype with a mesh once
NewLight(proto) ==
    /\ ~crashed
    /\ Created < MaxLights
    /\ Protos[proto].has_mesh => \A i \in 1..Created : heap[i] # proto
    /\ heap' = Append(heap, proto)
    /\ objects' = Append(objects, Created + 1)
    /\ pass' = NoPass
    /\ UNCHANGED <<universe, status, stats, crashed, current_camera, holders>>

\* the scene graph drops the last strong reference to an object
DropObject(id) ==
    /\ ~crashed
    /\ heap[id] # Gone
    /\ heap' = [heap EXCEPT ![id] = Gone]
    /\ pass' = NoPass
    /\ UNCHANGED <<universe, objects, status, stats, crashed,
                   current_camera, holders>>

\* Engine::begin (lines 608-612): one step of the asset system
Begin(loaded) ==
    /\ ~crashed
    /\ \A r \in DOMAIN status :
          status[r] # "NotReady" => loaded[r] = status[r]
    /\ status' = loaded
    /\ pass' = NoPass
    /\ UNCHANGED <<universe, objects, heap, stats, crashed,
                   current_camera, holders>>

\* lines 499-510: the buckets after the gather loop
Gathered(camera) == gather_objects(RenderQueueList_new, 1, camera)

\* what render_pass_with_material (lines 471-541) does to the engine
PassStep(camera, material) ==
    /\ \E opaque \in sort_by_cam_distance_reverse(Gathered(camera)["Opaque"]),
          transparent \in sort_by_cam_distance(Gathered(camera)["Transparent"]) :
          pass' = render_pass_with_material(camera, material,
                      Gathered(camera), opaque, transparent)
    /\ crashed' = pass'.panicked
    /\ stats' = IF pass'.panicked THEN stats ELSE pass'.ctx.stats

\* Engine::render_pass_with_material (lines 471-541)
RenderPassWithMaterial(camera, material) ==
    /\ ~crashed
    /\ PassStep(camera, material)
    /\ UNCHANGED <<universe, objects, heap, status, current_camera, holders>>

\* Engine::render_pass (lines 544-546): no override material
render_pass(camera) == PassStep(camera, None)

\* find_component::<Camera> (lines 372-383): the Camera component of the
\* first reference that upgrades to an object carrying one
find_camera ==
    LET at == {i \in 1..Len(objects) :
                  /\ heap[objects[i]] # Gone
                  /\ heap[objects[i]] \in DOMAIN ProtoCameras}
        first == CHOOSE i \in at : \A j \in at : i <= j
    IN IF at = {} THEN NoCamera
       ELSE [id |-> objects[first], camera |-> ProtoCameras[heap[objects[first]]]]

\* mutant of main_camera: the camera is looked up anew at every call
main_camera_fresh == find_camera

\* Engine::main_camera (lines 548-560): what the cache holds after the
\* call, which is also what the call returns
main_camera ==
    IF current_camera = NoCamera THEN find_camera ELSE current_camera

\* Arc::strong_count of a camera component: its object while alive, the
\* cache, the caller
strong_count(c) ==
    (IF heap[c.id] # Gone THEN 1 ELSE 0) +
    (IF current_camera = c THEN 1 ELSE 0) +
    (IF c \in holders THEN 1 ELSE 0)

\* lines 618-624: the cache after end()
end_camera ==
    IF current_camera # NoCamera /\ strong_count(current_camera) = 1
    THEN NoCamera
    ELSE current_camera

\* the trace of a main_camera() call that returned c
MainCameraPass(c) == [ran |-> FALSE, returned |-> c]

\* the trace of a render() that found no camera: line 570
ClearPass == [ran |-> FALSE, calls |-> <<Call("clear", None, 0)>>]

\* a caller asks for the main camera and keeps the reference, or drops it
MainCamera(keep) ==
    /\ ~crashed
    /\ current_camera' = main_camera
    /\ holders' = IF keep /\ main_camera # NoCamera
                  THEN holders \cup {main_camera} ELSE holders
    /\ pass' = MainCameraPass(main_camera)
    /\ UNCHANGED <<universe, objects, heap, status, stats, crashed>>

\* the caller drops a camera reference it kept
Release(c) ==
    /\ ~crashed
    /\ c \in holders
    /\ holders' = holders \ {c}
    /\ pass' = NoPass
    /\ UNCHANGED <<universe, objects, heap, status, stats, crashed,
                   current_camera>>

\* Engine::render (lines 563-572)
Render ==
    /\ ~crashed
    /\ current_camera' = main_camera
    /\ IF main_camera = NoCamera
       THEN /\ pass' = ClearPass
            /\ UNCHANGED <<stats, crashed>>
       ELSE render_pass(Cameras[main_camera.camera])
    /\ UNCHANGED <<universe, objects, heap, status, holders>>

\* mutant of End: no reference is removed
End_keep ==
    /\ ~crashed
    /\ objects' = objects
    /\ current_camera' = end_camera
    /\ pass' = EndPass
    /\ UNCHANGED <<universe, heap, status, stats, crashed, holders>>

\* Engine::end (lines 614-625): prune the references that no longer
\* upgrade, drop the camera cache if nothing else holds the camera
End ==
    /\ ~crashed
    /\ objects' = SelectSeq(objects, LAMBDA id : heap[id] # Gone)
    /\ current_camera' = end_camera
    /\ pass' = EndPass
    /\ UNCHANGED <<universe, heap, status, stats, crashed, holders>>

EngineStats_default ==
    [surfaces_count |-> 0, opaque_count |-> 0, transparent_count |-> 0]

\* Engine::new (lines 595-605)
InitEngine ==
    /\ objects = <<>>
    /\ heap = <<>>
    /\ stats = EngineStats_default
    /\ crashed = FALSE
    /\ pass = NoPass
    /\ current_camera = NoCamera
    /\ holders = {}

SceneUniverse ==
    [protos |-> {"near", "twin", "mid", "far", "out", "inactive", "lamp"},
     cameras |-> {"cam1", "cam2"},
     overrides |-> {None, "m_ov"},
     streaming |-> {}]

BindUniverse ==
    [protos |-> {"near", "twin", "mid", "far", "panel"},
     cameras |-> {"cam1"},
     overrides |-> {None, "m_ov"},
     streaming |-> Streaming]

LightUniverse ==
    [protos |-> {"lamp", "bulb", "near"},
     cameras |-> {"cam1"},
     overrides |-> {None},
     streaming |-> {}]

CameraUniverse ==
    [protos |-> {"eye1", "eye2", "near"},
     cameras |-> {"cam1", "cam2"},
     overrides |-> {None},
     streaming |-> {}]

LifeUniverse ==
    [protos |-> {"near", "mid", "lamp", "bulb"},
     cameras |-> {"cam1"},
     overrides |-> {None},
     streaming |-> Streaming]

Init ==
    /\ InitEngine
    /\ universe = SceneUniverse
    /\ status = [r \in {} |-> "Ready"]

InitBind ==
    /\ InitEngine
    /\ universe = BindUniverse
    /\ status = [r \in Streaming |-> "NotReady"]

Next ==
    \/ \E proto \in universe.protos : NewGameObject(proto)
    \/ \E c \in universe.cameras, m \in universe.overrides :
          RenderPassWithMaterial(Cameras[c], m)

InitLight ==
    /\ InitEngine
    /\ universe = LightUniverse
    /\ status = [r \in {} |-> "Ready"]

NextLight ==
    \/ \E proto \in universe.protos : NewLight(proto)
    \/ \E id \in 1..Created : DropObject(id)
    \/ \E c \in universe.cameras, m \in universe.overrides :
          RenderPassWithMaterial(Cameras[c], m)

InitLife ==
    /\ InitEngine
    /\ universe = LifeUniverse
    /\ status = [r \in Streaming |-> "NotReady"]

InitCamera ==
    /\ InitEngine
    /\ universe = CameraUniverse
    /\ status = [r \in {} |-> "Ready"]

NextCamera ==
    \/ \E proto \in universe.protos : NewGameObject(proto)
    \/ \E id \in 1..Created : DropObject(id)
    \/ \E keep \in BOOLEAN : MainCamera(keep)
    \/ \E c \in holders : Release(c)
    \/ Render
    \/ End

NextBind ==
    \/ Next
    \/ \E loaded \in AssetStates : Begin(loaded)

NextLife ==
    \/ NextBind
    \/ \E id \in 1..Created : DropObject(id)
    \/ End

(***************************************************************************)
(* Properties.  They read the trace of the pass that has just run.         *)
(***************************************************************************)
Ord(k) == RenderQueueOrd[k]

TagOf(s) == Materials[Surfaces[s].material].render_queue

Range(seq) == {seq[i] : i \in 1..Len(seq)}

Count(seq, Test(_)) == Cardinality({i \in 1..Len(seq) : Test(seq[i])})

\* the commands of the four buckets, bucket by bucket in the order
\* Opaque, Skybox, Transparent, UI
InSubmissionOrder(render_q) ==
    render_q["Opaque"] \o render_q["Skybox"] \o
    render_q["Transparent"] \o render_q["UI"]

\* C1: whenever a command of bucket K is drawn, every command of every
\* bucket of an earlier kind has already been processed, and the kinds of
\* the processed commands never decrease: the buckets are submitted in the
\* order Opaque, Skybox, Transparent, UI whatever the gather order was.
C1_SubmissionOrder ==
    pass.ran =>
        /\ \A j \in 1..Len(pass.cmds) :
              pass.cmds[j].outcome = "Drawn" =>
                 \A k \in RenderQueueKinds :
                    Ord(k) < Ord(pass.cmds[j].q) =>
                       Cardinality({i \in 1..(j - 1) : pass.cmds[i].q = k})
                          = Len(pass.render_q[k])
        /\ \A i, j \in 1..Len(pass.cmds) :
              i < j => Ord(pass.cmds[i].q) <= Ord(pass.cmds[j].q)

\* a pass that drew from all four buckets although the object gathered
\* first supplied the UI command and a later object the Opaque one
C1_Witness ==
    /\ pass.ran
    /\ \A k \in RenderQueueKinds :
          \E i \in 1..Len(pass.cmds) :
             pass.cmds[i].q = k /\ pass.cmds[i].outcome = "Drawn"
    /\ \E i, j \in 1..Len(pass.cmds) :
          /\ pass.cmds[i].q = "Opaque" /\ pass.cmds[j].q = "UI"
          /\ pass.cmds[j].cmd.object < pass.cmds[i].cmd.object

\* the commands of bucket k in the order they were processed
Processed(k) ==
    LET idx == SelectSeq([i \in 1..Len(pass.cmds) |-> i],
                         LAMBDA i : pass.cmds[i].q = k)
    IN [n \in 1..Len(idx) |-> pass.cmds[idx[n]].cmd]

\* C2: the Opaque commands are processed in non-decreasing squared camera
\* distance and the Transparent ones in non-increasing distance, and both are
\* exactly the commands gathered; Skybox and UI commands are processed in
\* gather order.
C2_SortOrder ==
    pass.ran /\ ~pass.panicked =>
        /\ \A i \in 1..(Len(Processed("Opaque")) - 1) :
              Processed("Opaque")[i].cam_distance
                 <= Processed("Opaque")[i + 1].cam_distance
        /\ \A i \in 1..(Len(Processed("Transparent")) - 1) :
              Processed("Transparent")[i].cam_distance
                 >= Processed("Transparent")[i + 1].cam_distance
        /\ Range(Processed("Opaque")) = Range(pass.gathered["Opaque"])
        /\ Len(Processed("Opaque")) = Len(pass.gathered["Opaque"])
        /\ Range(Processed("Transparent")) = Range(pass.gathered["Transparent"])
        /\ Len(Processed("Transparent")) = Len(pass.gathered["Transparent"])
        /\ Processed("Skybox") = pass.gathered["Skybox"]
        /\ Processed("UI") = pass.gathered["UI"]

\* a pass with three Opaque and three Transparent commands at three
\* distances, gathered in an order that is neither one's sorted order, and
\* with Skybox and UI commands
C2_Witness ==
    /\ pass.ran /\ ~pass.panicked
    /\ Cardinality({c.cam_distance : c \in Range(Processed("Opaque"))}) >= 3
    /\ Cardinality({c.cam_distance : c \in Range(Processed("Transparent"))}) >= 3
    /\ pass.gathered["Opaque"] # pass.render_q["Opaque"]
    /\ pass.gathered["Transparent"] # pass.render_q["Transparent"]
    /\ Len(Processed("Skybox")) >= 1
    /\ Len(Processed("UI")) >= 2

\* the test gather applies to a surface of object id with a bounding sphere
InFrustum(camera, id, s) ==
    collide_sphere(camera, Protos[heap[id]].pos,
                   Surfaces[s].r * Protos[heap[id]].scale)

\* the objects gather visits and the surfaces of their meshes
Visited == {id \in Range(objects) : heap[id] # Gone}

SurfacesOf(id) == Range(Protos[heap[id]].mesh)

Renderable(id) == Protos[heap[id]].active /\ Protos[heap[id]].has_mesh

Emitted(id, s) ==
    \E c \in Range(pass.gathered[TagOf(s)]) : c.object = id /\ c.surface = s

\* C3: no bucket holds a command of an Opaque or Transparent surface that has
\* a bounding sphere failing the frustum test, and every Skybox or UI surface
\* of an active object with a mesh is in its bucket whether or not its
\* sphere passes the test.
C3_Culling ==
    pass.ran =>
        /\ \A k \in RenderQueueKinds : \A c \in Range(pass.gathered[k]) :
              (TagOf(c.surface) \in {"Opaque", "Transparent"}
                  /\ Surfaces[c.surface].has_bounds)
                 => InFrustum(pass.camera, c.object, c.surface)
        /\ \A id \in Visited : \A s \in SurfacesOf(id) :
              (Renderable(id) /\ TagOf(s) \in {"Skybox", "UI"})
                 => Emitted(id, s)

\* a pass over an object outside the frustum whose bounded Opaque surface was
\* left out and whose bounded Skybox and UI surfaces were emitted, while an
\* Opaque surface of the same object with a larger sphere was emitted
C3_Witness ==
    /\ pass.ran
    /\ \E id \in Visited :
          /\ Renderable(id)
          /\ \E s \in SurfacesOf(id) :
                /\ TagOf(s) = "Opaque" /\ Surfaces[s].has_bounds
                /\ ~InFrustum(pass.camera, id, s) /\ ~Emitted(id, s)
          /\ \E s \in SurfacesOf(id) :
                /\ TagOf(s) = "Opaque" /\ Surfaces[s].has_bounds
                /\ Emitted(id, s)
          /\ \E s \in SurfacesOf(id) :
                /\ TagOf(s) = "Skybox" /\ Surfaces[s].has_bounds
                /\ ~InFrustum(pass.camera, id, s) /\ Emitted(id, s)
          /\ \E s \in SurfacesOf(id) :
                /\ TagOf(s) = "UI" /\ Surfaces[s].has_bounds
                /\ ~InFrustum(pass.camera, id, s) /\ Emitted(id, s)

\* C4: every surface without a bounding volume of an active object with a
\* mesh is emitted as a draw command, whatever its material's queue tag.
C4_NoBoundsEmitted ==
    pass.ran =>
        \A id \in Visited : \A s \in SurfacesOf(id) :
           (Renderable(id) /\ ~Surfaces[s].has_bounds) => Emitted(id, s)

\* C5: every command of every bucket comes from an active object that has a
\* mesh: an inactive object and an object without a mesh contribute none.
C5_InactiveContributesNothing ==
    pass.ran =>
        \A k \in RenderQueueKinds :
           \A c \in Range(pass.gathered[k]) \cup Range(pass.render_q[k]) :
              /\ Protos[heap[c.object]].active
              /\ Protos[heap[c.object]].has_mesh

\* a pass that gathered commands over a scene holding an inactive object with
\* a mesh (an Opaque surface inside the frustum, a Skybox and an unbounded UI
\* surface) and an object with no mesh
C5_Witness ==
    /\ pass.ran
    /\ Len(InSubmissionOrder(pass.render_q)) >= 1
    /\ \E id \in Visited :
          /\ ~Protos[heap[id]].active /\ Protos[heap[id]].has_mesh
          /\ \E s \in SurfacesOf(id) :
                TagOf(s) = "Opaque" /\ InFrustum(pass.camera, id, s)
          /\ \E s \in SurfacesOf(id) : TagOf(s) = "Skybox"
    /\ \E id \in Visited :
          Protos[heap[id]].active /\ ~Protos[heap[id]].has_mesh

\* C7: every command in bucket K, as gathered, as sorted and as processed,
\* is of a surface whose own material has queue tag K, also in a pass run
\* with an override material of another tag; and the buckets are those the
\* gather produces for the camera alone.
C7_BucketByOwnMaterial ==
    pass.ran =>
        /\ \A k \in RenderQueueKinds :
              \A c \in Range(pass.gathered[k]) \cup Range(pass.render_q[k]) :
                 TagOf(c.surface) = k
        /\ \A i \in 1..Len(pass.cmds) :
              TagOf(pass.cmds[i].cmd.surface) = pass.cmds[i].q
        /\ \A id \in Visited : \A s \in SurfacesOf(id) :
              Cardinality({k \in RenderQueueKinds : \E c \in Range(pass.render_q[k]) :
                              c.object = id /\ c.surface = s}) <= 1
        /\ \A k \in RenderQueueKinds :
              /\ Len(pass.render_q[k]) = Len(Gathered(pass.camera)[k])
              /\ Range(pass.render_q[k]) = Range(Gathered(pass.camera)[k])

\* a pass run with the override material, whose tag is UI, that processed
\* commands of the Opaque, Skybox and Transparent buckets with it
C7_Witness ==
    /\ pass.ran
    /\ pass.material # None
    /\ \A k \in {"Opaque", "Skybox", "Transparent"} :
          \E i \in 1..Len(pass.cmds) :
             /\ pass.cmds[i].q = k
             /\ pass.cmds[i].mat = pass.material
             /\ Materials[pass.cmds[i].mat].render_queue # k
             /\ pass.cmds[i].outcome = "Drawn"

\* whether the program and every texture of material m, and buffer b, bind
MaterialReady(m) ==
    /\ AssetBind(Materials[m].program) = "Ok"
    /\ \A t \in Range(Materials[m].textures) : AssetBind(t) = "Ok"

AllReady(e) ==
    MaterialReady(e.mat) /\ AssetBind(Surfaces[e.cmd.surface].buffer) = "Ok"

DrawCalls == SelectSeq(pass.calls, LAMBDA c : c.op = "draw")

\* C6: in a pass that did not abort, every command of every bucket is
\* processed once, in bucket order; a command whose material (program or a
\* texture) or buffer is not ready issues no draw and the commands after it
\* are still processed; every command whose resources are all ready is drawn
\* once, so the device sees one draw call per ready command.
C6_NotReadySkipped ==
    pass.ran /\ ~pass.panicked =>
        /\ [i \in 1..Len(pass.cmds) |-> pass.cmds[i].cmd]
              = InSubmissionOrder(pass.render_q)
        /\ \A i \in 1..Len(pass.cmds) :
              /\ pass.cmds[i].mat =
                    resolve_material(pass.cmds[i].cmd, pass.material)
              /\ pass.cmds[i].outcome = "Drawn" <=> AllReady(pass.cmds[i])
              /\ pass.cmds[i].outcome \in {"Drawn", "SkipMaterial", "SkipBuffer"}
        /\ [i \in 1..Len(DrawCalls) |-> DrawCalls[i].res]
              = [i \in 1..Len(SelectSeq(pass.cmds, AllReady)) |->
                    Surfaces[SelectSeq(pass.cmds, AllReady)[i].cmd.surface].buffer]

\* a pass in which a command was skipped for its material and another for
\* its buffer, each followed by a drawn command of the same bucket, and a
\* command of a later bucket was drawn
C6_Witness ==
    /\ pass.ran /\ ~pass.panicked
    /\ \E i, j, k \in 1..Len(pass.cmds) :
          /\ i < j /\ j < k
          /\ pass.cmds[i].outcome = "SkipMaterial"
          /\ pass.cmds[j].outcome = "Drawn"
          /\ pass.cmds[j].q = pass.cmds[i].q
          /\ pass.cmds[k].outcome = "Drawn"
          /\ pass.cmds[k].q # pass.cmds[i].q
    /\ \E i, j \in 1..Len(pass.cmds) :
          /\ i < j
          /\ pass.cmds[i].outcome = "SkipBuffer"
          /\ pass.cmds[j].outcome = "Drawn"
          /\ pass.cmds[j].q = pass.cmds[i].q

\* the first command of the pass that was drawn, or 0
FirstDrawn ==
    IF \E j \in 1..Len(pass.cmds) : pass.cmds[j].outcome = "Drawn"
    THEN CHOOSE j \in 1..Len(pass.cmds) :
            /\ pass.cmds[j].outcome = "Drawn"
            /\ \A i \in 1..(j - 1) : pass.cmds[i].outcome # "Drawn"
    ELSE 0

\* C8: every pass starts with an empty binding cache: the first command
\* whose program is ready binds it at the device, the first texture request
\* finds no unit held, and the first command drawn binds its buffer at the
\* device and has had its program and the lights bound at the device
\* earlier in this pass, whatever the pass before left bound.
C8_CacheEmptyAtPassStart ==
    pass.ran =>
        /\ (Len(pass.cmds) >= 1
               /\ AssetBind(Materials[pass.cmds[1].mat].program) = "Ok")
              => pass.cmds[1].prog_bind
        /\ Len(pass.texreq) >= 1 => pass.texreq[1].held = -1
        /\ FirstDrawn # 0 =>
              /\ pass.cmds[FirstDrawn].buf_bind
              /\ \E k \in 1..Len(pass.calls) :
                    /\ pass.calls[k].op = "bind_lights"
                    /\ \A j \in 1..k : pass.calls[j].op # "draw"
              /\ \E i \in 1..FirstDrawn :
                    /\ pass.cmds[i].prog_bind
                    /\ Materials[pass.cmds[i].mat].program
                          = Materials[pass.cmds[FirstDrawn].mat].program

\* a pass run right after another one, whose first drawn command uses the
\* program and the buffer the pass before had bound last
C8_Witness ==
    /\ pass.ran /\ pass.before.ran
    /\ FirstDrawn # 0
    /\ Materials[pass.cmds[FirstDrawn].mat].program = pass.before.prog
    /\ Surfaces[pass.cmds[FirstDrawn].cmd.surface].buffer
          = pass.before.mesh_buffer

\* the context's program, last material and switch count before command i
ProgBefore(i) == IF i = 1 THEN None ELSE pass.cmds[i - 1].prog

MaterialBefore(i) == IF i = 1 THEN None ELSE pass.cmds[i - 1].last_material

SwitchProgBefore(i) == IF i = 1 THEN 0 ELSE pass.cmds[i - 1].switch_prog

\* C9: processing a command adds one to the program-switch counter exactly
\* when its material is set up (it is not the last material bound), the
\* material's program is not the cached program and the program's bind
\* succeeds, and adds nothing otherwise; a pass of two commands, both drawn,
\* ends with the counter at 1 when their programs are identical and at 2
\* when they are distinct.
C9_ProgramSwitchCount ==
    pass.ran =>
        /\ \A i \in 1..Len(pass.cmds) :
              pass.cmds[i].switch_prog - SwitchProgBefore(i) =
                 IF /\ pass.cmds[i].mat # MaterialBefore(i)
                    /\ Materials[pass.cmds[i].mat].program # ProgBefore(i)
                    /\ AssetBind(Materials[pass.cmds[i].mat].program) = "Ok"
                 THEN 1 ELSE 0
        /\ pass.ctx.switch_prog =
              SwitchProgBefore(Len(pass.cmds) + 1)
        /\ pass.ctx.switch_prog =
              Len(SelectSeq(pass.calls, LAMBDA c : c.op = "use_program"))
        /\ (Len(pass.cmds) = 2 /\ \A i \in 1..2 : pass.cmds[i].outcome = "Drawn")
              => pass.ctx.switch_prog =
                    IF Materials[pass.cmds[1].mat].program
                          = Materials[pass.cmds[2].mat].program
                    THEN 1 ELSE 2

\* a pass with two consecutive drawn commands of two materials sharing one
\* program, the second adding nothing, and two consecutive drawn commands
\* with distinct programs, the second adding one
C9_Witness ==
    /\ pass.ran
    /\ \E i \in 2..Len(pass.cmds) :
          /\ pass.cmds[i - 1].outcome = "Drawn" /\ pass.cmds[i].outcome = "Drawn"
          /\ pass.cmds[i - 1].mat # pass.cmds[i].mat
          /\ Materials[pass.cmds[i - 1].mat].program
                = Materials[pass.cmds[i].mat].program
          /\ pass.cmds[i].switch_prog = pass.cmds[i - 1].switch_prog
    /\ \E i \in 2..Len(pass.cmds) :
          /\ pass.cmds[i - 1].outcome = "Drawn" /\ pass.cmds[i].outcome = "Drawn"
          /\ Materials[pass.cmds[i - 1].mat].program
                # Materials[pass.cmds[i].mat].program
          /\ pass.cmds[i].switch_prog = pass.cmds[i - 1].switch_prog + 1

\* the requests of the pass that found no unit held by their texture
Misses == SelectSeq(pass.texreq, LAMBDA r : r.held = -1)

\* the position in texreq of the n-th miss
MissAt(n) ==
    CHOOSE k \in 1..Len(pass.texreq) :
       /\ pass.texreq[k].held = -1
       /\ Cardinality({j \in 1..k : pass.texreq[j].held = -1}) = n

\* C10: a request for a texture that holds a unit returns that unit with no
\* device bind; a request that binds uses a unit below the capacity of 8;
\* and when the first nine requests that find no unit held are for nine
\* distinct textures and all succeed, the first eight get the distinct units
\* 0..7 and the ninth gets the unit of the first, whose texture then holds no
\* unit: the next request for it finds none.
C10_TextureUnitsFifo ==
    pass.ran =>
        /\ \A k \in 1..Len(pass.texreq) :
              /\ pass.texreq[k].held # -1 =>
                    /\ pass.texreq[k].unit = pass.texreq[k].held
                    /\ ~pass.texreq[k].bind
                    /\ pass.texreq[k].res = "Ok"
              /\ pass.texreq[k].bind =>
                    pass.texreq[k].unit \in 0..(TexUnitCapacity - 1)
        /\ (/\ Len(Misses) >= TexUnitCapacity + 1
            /\ \A n \in 1..(TexUnitCapacity + 1) : Misses[n].res = "Ok"
            /\ \A n, m \in 1..(TexUnitCapacity + 1) :
                  n # m => Misses[n].tex # Misses[m].tex)
              => /\ \A n, m \in 1..TexUnitCapacity :
                       n # m => Misses[n].unit # Misses[m].unit
                 /\ Misses[TexUnitCapacity + 1].unit = Misses[1].unit
                 /\ \A k \in (MissAt(TexUnitCapacity + 1) + 1)..Len(pass.texreq) :
                       (/\ pass.texreq[k].tex = Misses[1].tex
                        /\ \A j \in (MissAt(TexUnitCapacity + 1) + 1)..(k - 1) :
                              pass.texreq[j].tex # Misses[1].tex)
                          => pass.texreq[k].held = -1

\* a pass in which nine distinct textures were bound in sequence, the first
\* texture was requested again after the ninth and bound anew, and a texture
\* still holding its unit was requested again
C10_Witness ==
    /\ pass.ran
    /\ Len(Misses) >= TexUnitCapacity + 2
    /\ \A n \in 1..(TexUnitCapacity + 1) : Misses[n].res = "Ok"
    /\ \A n, m \in 1..(TexUnitCapacity + 1) :
          n # m => Misses[n].tex # Misses[m].tex
    /\ Misses[TexUnitCapacity + 2].tex = Misses[1].tex
    /\ Misses[TexUnitCapacity + 2].bind
    /\ \E k \in (MissAt(TexUnitCapacity + 1) + 1)..Len(pass.texreq) :
          pass.texreq[k].held # -1

\* the positions of Engine.objects whose object is alive and carries a Light
\* of the given kind
LightsAt(kind) ==
    {i \in 1..Len(objects) :
        /\ heap[objects[i]] # Gone
        /\ Protos[heap[objects[i]]].light = kind}

\* C11: after light resolution the main light is always defined: the first
\* live Directional light in the order of the object list if there is one,
\* otherwise the synthesized default; the point lights are the first
\* min(4, n) live Point lights in that order, never more than 4.
C11_LightSelection ==
    pass.ran =>
        /\ pass.ctx.main_light # NoLight
        /\ IF LightsAt("Directional") = {}
           THEN pass.ctx.main_light = DefaultLight
           ELSE \E i \in LightsAt("Directional") :
                   /\ \A j \in LightsAt("Directional") : i <= j
                   /\ pass.ctx.main_light = objects[i]
        /\ Len(pass.ctx.point_lights) <= 4
        /\ Len(pass.ctx.point_lights) =
              IF Cardinality(LightsAt("Point")) < 4
              THEN Cardinality(LightsAt("Point")) ELSE 4
        /\ \A n \in 1..Len(pass.ctx.point_lights) :
              \E i \in LightsAt("Point") :
                 /\ Cardinality({j \in LightsAt("Point") : j < i}) = n - 1
                 /\ pass.ctx.point_lights[n] = objects[i]

\* a pass over a scene with more than four live Point lights, a dead
\* reference before the last of them, and no Directional light
C11_Witness ==
    /\ pass.ran
    /\ Cardinality(LightsAt("Point")) > 4
    /\ LightsAt("Directional") = {}
    /\ \E i \in 1..Len(objects) :
          /\ heap[objects[i]] = Gone
          /\ \E j \in LightsAt("Point") : i < j

\* C12: after every completed pass the frame statistics are the gathered
\* counts: surfaces_count is the number of commands in the four buckets,
\* opaque_count and transparent_count the sizes of the Opaque and the
\* Transparent bucket, whether or not commands were skipped in submission;
\* hence opaque_count + transparent_count <= surfaces_count.
C12_FrameStats ==
    pass.ran /\ ~pass.panicked =>
        /\ stats.surfaces_count = Len(InSubmissionOrder(pass.gathered))
        /\ stats.opaque_count = Len(pass.gathered["Opaque"])
        /\ stats.transparent_count = Len(pass.gathered["Transparent"])
        /\ stats.opaque_count + stats.transparent_count
              <= stats.surfaces_count

\* a completed pass with commands in the Opaque, Transparent and UI buckets,
\* one of them skipped as not ready and one drawn
C12_Witness ==
    /\ pass.ran /\ ~pass.panicked
    /\ pass.gathered["Opaque"] # <<>>
    /\ pass.gathered["Transparent"] # <<>>
    /\ pass.gathered["UI"] # <<>>
    /\ \E i, j \in 1..Len(pass.cmds) :
          /\ pass.cmds[i].outcome \in {"SkipMaterial", "SkipBuffer"}
          /\ pass.cmds[j].outcome = "Drawn"
    /\ stats.surfaces_count > Len(DrawCalls)

C14_DrawnWithMaterialProgram ==
    pass.ran =>
        \A i \in 1..Len(pass.cmds) :
           pass.cmds[i].outcome = "Drawn" =>
              /\ pass.cmds[i].mat =
                    resolve_material(pass.cmds[i].cmd, pass.material)
              /\ pass.cmds[i].prog = Materials[pass.cmds[i].mat].program

\* C15: whenever a command is drawn, its geometry buffer is the buffer bound
\* at the device at that moment, also for the second of two consecutive
\* commands that share one buffer.
C15_DrawnWithBufferBound ==
    pass.ran =>
        \A i \in 1..Len(pass.cmds) :
           pass.cmds[i].outcome = "Drawn" =>
              pass.cmds[i].gl_buffer = Surfaces[pass.cmds[i].cmd.surface].buffer

\* the resources a command binds, in the order it binds them: the program
\* and the textures of its material, then its buffer
BindOrder(e) ==
    <<Materials[e.mat].program>> \o Materials[e.mat].textures \o
    <<Surfaces[e.cmd.surface].buffer>>

\* the first result other than Ok among the binds of a command, or Ok
FirstError(e) ==
    LET bad == {k \in 1..Len(BindOrder(e)) : AssetBind(BindOrder(e)[k]) # "Ok"}
    IN IF bad = {} THEN "Ok"
       ELSE AssetBind(BindOrder(e)[CHOOSE k \in bad : \A j \in bad : k <= j])

\* C16: a material or buffer bind error other than not-ready is fatal: the
\* pass aborts at that command (the process panics), the command is the
\* last one processed, and no draw call is issued for it or for any later
\* command of the pass.
C16_FatalAborts ==
    pass.ran =>
        /\ \A i \in 1..Len(pass.cmds) :
              /\ pass.cmds[i].outcome = "Panic"
                    <=> FirstError(pass.cmds[i]) = "Failed"
              /\ pass.cmds[i].outcome = "Panic" => i = Len(pass.cmds)
        /\ pass.panicked <=>
              (pass.cmds # <<>> /\ pass.cmds[Len(pass.cmds)].outcome = "Panic")
        /\ pass.panicked <=> crashed
        /\ [i \in 1..Len(pass.cmds) |-> pass.cmds[i].cmd]
              = SubSeq(InSubmissionOrder(pass.render_q), 1, Len(pass.cmds))
        /\ Len(DrawCalls)
              = Cardinality({i \in 1..Len(pass.cmds) :
                                pass.cmds[i].outcome = "Drawn"})
        /\ pass.panicked =>
              \A k \in 1..Len(pass.calls) :
                 pass.calls[k].op = "draw" =>
                    \E n \in 1..Len(DrawCalls) :
                       /\ DrawCalls[n] = pass.calls[k]
                       /\ n <= Len(pass.cmds) - 1

\* a pass aborted by a failed buffer at a command that follows a drawn one
\* and precedes commands that were never processed
C16_Witness ==
    /\ pass.ran /\ pass.panicked /\ crashed
    /\ Len(pass.cmds) < Len(InSubmissionOrder(pass.render_q))
    /\ \E i \in 1..(Len(pass.cmds) - 1) : pass.cmds[i].outcome = "Drawn"
    /\ MaterialReady(pass.cmds[Len(pass.cmds)].mat)
    /\ AssetBind(Surfaces[pass.cmds[Len(pass.cmds)].cmd.surface].buffer)
          = "Failed"

\* the resource of the last call of kind op among the first k calls of the
\* pass, or None
LastCall(op, k) ==
    LET at == {j \in 1..k : pass.calls[j].op = op}
    IN IF at = {} THEN None
       ELSE pass.calls[CHOOSE j \in at : \A i \in at : i <= j].res

\* C17: light uniforms are uploaded to a program only when it is not the
\* program they were last uploaded to in this pass; at every draw call the
\* active program is the one that most recently received the light
\* uniforms; and a pass whose materials all share one program uploads the
\* lights once.
C17_LightUpload ==
    pass.ran =>
        /\ \A k \in 1..Len(pass.calls) :
              pass.calls[k].op = "bind_lights" =>
                 /\ pass.calls[k].res # LastCall("bind_lights", k - 1)
                 /\ pass.calls[k].res = LastCall("use_program", k)
        /\ \A k \in 1..Len(pass.calls) :
              pass.calls[k].op = "draw" =>
                 LastCall("use_program", k) = LastCall("bind_lights", k)
        /\ (\A i, j \in 1..Len(pass.cmds) :
               Materials[pass.cmds[i].mat].program
                  = Materials[pass.cmds[j].mat].program)
              => Cardinality({k \in 1..Len(pass.calls) :
                                 pass.calls[k].op = "bind_lights"}) <= 1

\* the value a state field must have for a command of bucket q with
\* material mat: the material's if it sets the field, else the bucket's if
\* it sets it, else the engine default
Overlay(f, q, mat) ==
    IF Materials[mat].states[f] # None THEN Materials[mat].states[f]
    ELSE IF RenderQueueStates[q][f] # None THEN RenderQueueStates[q][f]
    ELSE StateDefaults[f]

BindOps ==
    {"use_program", "bind_texture", "bind_lights", "bind_buffer", "draw"}

\* C18: for every command processed, drawn or skipped, the GPU state
\* committed is the engine defaults overlaid by the bucket's block overlaid
\* by the resolved material's block: a field the material sets wins, a
\* Skybox command without material state has depth write off and depth test
\* LessEqual, a Transparent one depth write off, and nothing of the command
\* before remains; the state is committed once per command, before any of
\* its binds.
C18_CommittedState ==
    pass.ran =>
        /\ \A i \in 1..Len(pass.cmds) :
              /\ \A f \in DOMAIN StateDefaults :
                    pass.cmds[i].state[f]
                       = Overlay(f, pass.cmds[i].q, pass.cmds[i].mat)
              /\ \A f \in DOMAIN StateDefaults :
                    Materials[pass.cmds[i].mat].states[f] # None =>
                       pass.cmds[i].state[f]
                          = Materials[pass.cmds[i].mat].states[f]
              /\ (/\ pass.cmds[i].q = "Skybox"
                  /\ Materials[pass.cmds[i].mat].states = MaterialStateDefault)
                    => pass.cmds[i].state
                          = [depth_write |-> "false", depth_test |-> "LessEqual"]
              /\ (/\ pass.cmds[i].q = "Transparent"
                  /\ Materials[pass.cmds[i].mat].states = MaterialStateDefault)
                    => pass.cmds[i].state
                          = [depth_write |-> "false",
                             depth_test |-> StateDefaults.depth_test]
        /\ Cardinality({k \in 1..Len(pass.calls) :
                           pass.calls[k].op = "commit_states"})
              = Len(pass.cmds)
        /\ \A k \in 1..Len(pass.calls) :
              pass.calls[k].op \in BindOps =>
                 \E j \in 1..(k - 1) :
                    /\ pass.calls[j].op = "commit_states"
                    /\ \A n \in j..(k - 1) : pass.calls[n].op # "draw"

\* a pass with a command skipped as not ready, and a Skybox command (depth
\* test LessEqual, no depth write) directly followed by a Transparent
\* command whose material turns depth write on
C18_Witness ==
    /\ pass.ran /\ ~pass.panicked
    /\ \E i \in 1..Len(pass.cmds) :
          pass.cmds[i].outcome \in {"SkipMaterial", "SkipBuffer"}
    /\ \E i \in 2..Len(pass.cmds) :
          /\ pass.cmds[i - 1].q = "Skybox"
          /\ pass.cmds[i - 1].state.depth_test = "LessEqual"
          /\ pass.cmds[i - 1].state.depth_write = "false"
          /\ pass.cmds[i].q = "Transparent"
          /\ Materials[pass.cmds[i].mat].states.depth_write = "true"
          /\ pass.cmds[i].state.depth_write = "true"
          /\ pass.cmds[i].state.depth_test = "Less"

\* the references of the object list whose object is alive
LiveRefs == SelectSeq(objects, LAMBDA id : heap[id] # Gone)

\* C19: a render pass leaves the list of scene-object references as it is;
\* the commands and the lights of a pass come from live objects only; the
\* list changes only by a new object appended or by end(); and when end()
\* has returned the list is the references that resolved when it was
\* called, in their order.
C19_ObjectListStable ==
    [][/\ pass'.ran =>
             /\ objects' = objects
             /\ \A k \in RenderQueueKinds :
                   \A n \in 1..Len(pass'.render_q[k]) :
                      /\ heap[pass'.render_q[k][n].object] # Gone
                      /\ pass'.render_q[k][n].object \in Range(objects)
             /\ pass'.ctx.main_light # DefaultLight =>
                   heap[pass'.ctx.main_light] # Gone
             /\ \A n \in 1..Len(pass'.ctx.point_lights) :
                   heap[pass'.ctx.point_lights[n]] # Gone
       /\ (~pass'.ran /\ pass' = EndPass) =>
             /\ objects' = LiveRefs
             /\ \A i \in 1..Len(objects') : heap'[objects'[i]] # Gone
       /\ objects' # objects =>
             \/ ~pass'.ran /\ pass' = EndPass
             \/ objects' = Append(objects, Len(heap) + 1)]_vars

\* end() has returned after removing a dead reference that stood between
\* two live ones
C19_Witness ==
    /\ ~pass.ran /\ pass = EndPass
    /\ Len(objects) >= 2
    /\ \E i \in 1..(Len(objects) - 1) : objects[i + 1] > objects[i] + 1

\* the positions of the calls of kind op in the pass
CallsAt(op) == {k \in 1..Len(pass.calls) : pass.calls[k].op = op}

\* C20: the camera's render target is bound, before the clear and before
\* any draw call, if and only if the camera specifies one; it is unbound,
\* after the last draw call, if and only if it was bound; a pass that
\* completes leaves no render target bound.
C20_RenderTarget ==
    pass.ran =>
        /\ CallsAt("bind_frame_buffer") # {}
              <=> pass.camera.render_texture # None
        /\ \A b \in CallsAt("bind_frame_buffer") :
              /\ pass.calls[b].res = pass.camera.render_texture
              /\ \A k \in CallsAt("clear") \cup CallsAt("draw") : b < k
        /\ Cardinality(CallsAt("bind_frame_buffer")) <= 1
        /\ Cardinality(CallsAt("clear")) = 1
        /\ ~pass.panicked =>
              /\ CallsAt("unbind_frame_buffer") # {}
                    <=> CallsAt("bind_frame_buffer") # {}
              /\ \A u \in CallsAt("unbind_frame_buffer") :
                    /\ pass.calls[u].res = pass.camera.render_texture
                    /\ \A k \in CallsAt("draw") : k < u
              /\ Cardinality(CallsAt("unbind_frame_buffer"))
                    = Cardinality(CallsAt("bind_frame_buffer"))

\* a completed pass of a camera with a render target that issued draw calls
C20_Witness ==
    /\ pass.ran /\ ~pass.panicked
    /\ pass.camera.render_texture # None
    /\ CallsAt("draw") # {}
    /\ CallsAt("unbind_frame_buffer") = {Len(pass.calls)}

\* whether anything besides the cache holds camera component c: its object,
\* while alive, or the caller
HeldElsewhere(c) == heap[c.id] # Gone \/ c \in holders

\* C21: once the main camera is cached, every later main_camera() returns
\* it and every later render() renders through it, and the cache keeps it
\* until end(); end() empties the cache exactly when nothing besides the
\* cache holds the camera, so after end() the cache is empty or its camera
\* is held by another owner; a render() that finds no camera only clears
\* and issues no draw call.
C21_MainCameraCache ==
    [][/\ (current_camera # NoCamera /\ current_camera' # current_camera)
             => (~pass'.ran /\ pass' = EndPass /\ current_camera' = NoCamera)
       /\ (~pass'.ran /\ DOMAIN pass' = {"ran", "returned"}) =>
             /\ pass'.returned = current_camera'
             /\ current_camera # NoCamera => pass'.returned = current_camera
       /\ pass'.ran =>
             /\ current_camera' # NoCamera
             /\ pass'.camera = Cameras[current_camera'.camera]
             /\ pass'.material = None
             /\ current_camera # NoCamera => current_camera' = current_camera
       /\ (~pass'.ran /\ pass' = EndPass) =>
             /\ current_camera' = NoCamera <=>
                   (current_camera = NoCamera \/ ~HeldElsewhere(current_camera))
             /\ current_camera' = NoCamera
                   \/ (/\ current_camera' = current_camera
                       /\ \/ heap'[current_camera'.id] # Gone
                          \/ current_camera' \in holders')
       /\ (~pass'.ran /\ DOMAIN pass' = {"ran", "calls"}) =>
             /\ current_camera = NoCamera /\ current_camera' = NoCamera
             /\ \A i \in 1..Len(objects) :
                   heap[objects[i]] # Gone
                      => heap[objects[i]] \notin DOMAIN ProtoCameras
             /\ pass'.calls = <<Call("clear", None, 0)>>
             /\ stats' = stats]_vars

\* end() has returned and left in the cache a camera whose object is gone
\* but which the caller still holds, while another camera object is alive
C21_Witness ==
    /\ ~pass.ran /\ pass = EndPass
    /\ current_camera # NoCamera
    /\ heap[current_camera.id] = Gone
    /\ current_camera \in holders
    /\ \E i \in 1..Len(objects) :
          /\ heap[objects[i]] # Gone
          /\ heap[objects[i]] \in DOMAIN ProtoCameras

\* scenes of every kind of object under both cameras, all assets loaded
Spec == Init /\ [][Next]_vars

\* scenes with camera objects, rendered through the cached main camera
SpecCamera == InitCamera /\ [][NextCamera]_vars

\* scenes of up to MaxLights lights, some of them dropped
SpecLight == InitLight /\ [][NextLight]_vars

\* scenes whose programs, textures and buffers are still streaming
SpecBind == InitBind /\ [][NextBind]_vars

\* streaming scenes with objects dropped by the scene graph and pruned by
\* end()
SpecLife == InitLife /\ [][NextLife]_vars

====
